---------------------------- MODULE Spec2Model ----------------------------
(***************************************************************************)
(* Bounded-concurrency API execution engine of dify-apps-dsl-exporter.     *)
(*                                                                         *)
(* The repository holds three variants of execute_api:                     *)
(*   "delete"  delete.py, dify_api.py  (POST, GET, DELETE; 204 on DELETE)  *)
(*   "export"  export.py, main.py      (POST, GET)                         *)
(*   "import"  import.py               (POST only; try/except per attempt) *)
(* One asyncio event loop runs every coroutine; a step of the model is the *)
(* code a task runs between two suspension points.                         *)
(***************************************************************************)
EXTENDS Integers, Sequences, FiniteSets

VARIABLES
    variant,        \* which script runs (selects the execute_api variant)
    permits,        \* semaphore._value: free concurrency slots
    waiters,        \* semaphore._waiters: the queued callers, first come first
    call,           \* the logical execute_api calls, one record per caller
    coord,          \* position of the fan-out coordinator (delete_apps, ...)
    unit,           \* state of each bulk unit (task created by the coordinator)
    saved,          \* units whose exported file was written to the DSL folder
    listPc,         \* position of get_app_list
    page,           \* get_app_list: page
    app_num,        \* get_app_list: app_num
    max_page_num,   \* get_app_list: max_page_num
    app_list,       \* get_app_list: app_list
    reqPages,       \* pages passed to fetch_app_per_page, in call order
    got,            \* what fetch_app_per_page returned, in call order
    mainPc,         \* position of main
    access_token,   \* main: access_token
    login_response, \* login_and_get_token: response
    dsl_files,      \* import.py: number of files get_dsl_files() finds
    uniqPc,         \* position of check_uniquename
    apps,           \* main: apps, the collection check_uniquename reads
    unique_apps,    \* main: unique_apps
    same_app_names  \* main: same_app_names

vars == <<variant, permits, waiters, call, coord, unit, saved,
          listPc, page, app_num, max_page_num, app_list, reqPages, got,
          mainPc, access_token, login_response, dsl_files,
          uniqPc, apps, unique_apps, same_app_names>>

listVars == <<listPc, page, app_num, max_page_num, app_list, reqPages, got>>
mainVars == <<mainPc, access_token, login_response, dsl_files>>
uniqVars == <<uniqPc, apps, unique_apps, same_app_names>>
bulkVars == <<coord, unit, saved>>

-----------------------------------------------------------------------------
(* Bounds *)

MaxRetries == 3      \* largest retries argument tried on a single call
NumUnits == 4        \* largest collection handed to a coordinator
MaxPages == 2        \* largest page count a listing reports

(* Program constants *)

MAX_CONCURRENT_TASKS == 3
DefaultRetries == 3
limit == 30

Variants == {"delete", "export", "import"}
Methods == {"GET", "POST", "DELETE", "PUT"}

-----------------------------------------------------------------------------
(* Responses.  A response is a status code and a content; the content is   *)
(* either empty (<<>>) or the JSON text of one dict (<<d>>).               *)

Dict(t, tot, n) == [tag |-> t, total |-> tot, n |-> n]
EmptyDict == Dict(0, -1, -1)        \* {}
NoResult == Dict(-1, -1, -1)        \* nothing returned (yet)
Body1 == Dict(1, -1, -1)
Body2 == Dict(2, -1, -1)

Answer(s, c) == [status |-> s, content |-> c]

\* what the server may answer to a single request of an arbitrary call
Answers ==
    {Answer(200, <<>>), Answer(200, <<Body1>>), Answer(200, <<Body2>>),
     Answer(204, <<>>), Answer(500, <<>>)}

\* what the server may answer to the request of a bulk unit
BulkAnswers ==
    {Answer(200, <<Body1>>), Answer(500, <<>>)}
        \cup (IF variant = "delete" THEN {Answer(204, <<>>)} ELSE {})

-----------------------------------------------------------------------------
(* asyncio.Semaphore (CPython 3.11+; export.py needs 3.12 syntax).  The    *)
(* state S of the executor is the calls, the free permits (_value) and the *)
(* futures of the callers queued in acquire (_waiters, FIFO).  A waiter is *)
(* "waiting" while its future is pending and "granted" once release handed *)
(* it a permit; it stays in _waiters until its task resumes.               *)

Sem(cs, p, w) == [call |-> cs, permits |-> p, waiters |-> w]

Min(xs) == CHOOSE x \in xs : \A y \in xs : x <= y

Remove(seq, x) == SelectSeq(seq, LAMBDA y : y # x)

LockedNever(S) == FALSE
\* Semaphore.locked: no permit left, or callers queued before us
Locked(S) == S.permits = 0 \/ S.waiters # <<>>

\* Semaphore._wake_up_next: hand a permit to the first pending waiter
WakeUpNext(S) ==
    LET pend == {i \in 1..Len(S.waiters) : S.call[S.waiters[i]].pc = "waiting"}
    IN  IF pend = {}
        THEN S
        ELSE [S EXCEPT !.permits = @ - 1,
                       !.call[S.waiters[Min(pend)]].pc = "granted"]

\* Semaphore.release
Release(S) == WakeUpNext([S EXCEPT !.permits = @ + 1])

-----------------------------------------------------------------------------
(* execute_api *)

\* the methods the match statement (or the if of import.py) dispatches
Supported(v) ==
    CASE v = "delete" -> {"POST", "GET", "DELETE"}
      [] v = "export" -> {"POST", "GET"}
      [] v = "import" -> {"POST"}

LoopPerAttempt(v) == FALSE
\* `async with semaphore` encloses the whole for loop (FALSE: one attempt)
LoopOutside(v) == v # "import"

\* import.py wraps each attempt in try / except Exception
CatchesAll(v) == v = "import"

\* only delete.py / dify_api.py guard response.json() with response.content
GuardsEmptyContent(v) == v = "delete"

MoreAttemptsOffByOne(a, k) == a <= k
\* for attempt in range(retries)
MoreAttempts(a, k) == a < k

\* the status tests that end the call with a return
IsSuccess(v, m, s) ==
    \/ s = 200
    \/ v = "delete" /\ m = "DELETE" /\ s = 204

JsonDropsBody(c) == EmptyDict
\* response.json() on a non-empty content
Json(c) == Head(c)

NewCall(m, k) ==
    [method |-> m, retries |-> k, pc |-> "new", attempt |-> 0,
     holds |-> FALSE, sent |-> 0, sleeps |-> 0, acquired |-> 0,
     resps |-> <<>>, cause |-> "none", outcome |-> "none",
     result |-> NoResult]

ExitKeepsPermit(S, c) == [S EXCEPT !.call[c].holds = FALSE]
\* leaving `async with semaphore` (__aexit__) when the call is inside it
Exit(S, c) ==
    IF S.call[c].holds
    THEN Release([S EXCEPT !.call[c].holds = FALSE])
    ELSE S

\* the call ends with outcome o
Finish(S, c, o) ==
    Exit([S EXCEPT !.call[c].pc = "done", !.call[c].outcome = o], c)

\* return d
Return(S, c, d) ==
    Finish([S EXCEPT !.call[c].result = d], c, "returned")

\* print(...); await asyncio.sleep(0.5)
Backoff(S, c, why) ==
    [S EXCEPT !.call[c].pc = "sleep", !.call[c].sleeps = @ + 1,
              !.call[c].cause = why]

\* an exception raised inside `async with semaphore`: the slot is released;
\* import.py catches it and sleeps outside the slot, the others propagate it
Raise(S, c, o) ==
    IF CatchesAll(variant)
    THEN Backoff(Exit(S, c), c, "exception")
    ELSE Finish(S, c, o)

\* the match on method_type at the top of an attempt
StartAttempt(S, c) ==
    IF S.call[c].method \in Supported(variant)
    THEN [S EXCEPT !.call[c].pc = "inflight", !.call[c].sent = @ + 1]
    ELSE Raise(S, c, "invalid")

GrantedMatchesFirst(S, c) ==
    StartAttempt([S EXCEPT !.call[c].holds = TRUE, !.call[c].acquired = @ + 1],
                 c)
\* the call owns a permit: body of `async with semaphore`
Granted(S, c) ==
    LET H == [S EXCEPT !.call[c].holds = TRUE, !.call[c].acquired = @ + 1]
    IN  IF LoopOutside(variant) /\ ~MoreAttempts(0, S.call[c].retries)
        THEN Finish(H, c, "exhausted")
        ELSE StartAttempt(H, c)

\* Semaphore.acquire, up to its await
AcquireSem(S, c) ==
    IF ~Locked(S)
    THEN Granted([S EXCEPT !.permits = @ - 1], c)
    ELSE [S EXCEPT !.waiters = Append(@, c), !.call[c].pc = "waiting"]

\* Semaphore.acquire, after its await: the task of a granted waiter resumes
ResumeSem(S, c) ==
    LET R == [S EXCEPT !.waiters = Remove(@, c)]
    IN  Granted(IF R.permits > 0 THEN WakeUpNext(R) ELSE R, c)

\* function entry up to the first suspension
Enter(S, c) ==
    IF ~LoopOutside(variant) /\ ~MoreAttempts(0, S.call[c].retries)
    THEN Finish(S, c, "exhausted")
    ELSE AcquireSem(S, c)

\* the response of the pending request arrived
AfterResponse(S, c, a) ==
    LET H == [S EXCEPT !.call[c].resps = Append(@, a)]
    IN  IF IsSuccess(variant, S.call[c].method, a.status)
        THEN IF a.status = 200
             THEN IF a.content # <<>>
                  THEN Return(H, c, Json(a.content))
                  ELSE IF GuardsEmptyContent(variant)
                       THEN Return(H, c, EmptyDict)
                       ELSE Raise(H, c, "parse_error")
             ELSE Return(H, c, EmptyDict)
        ELSE Backoff(H, c, "status")

\* asyncio.sleep(0.5) is over: next iteration of the for loop
AfterSleep(S, c) ==
    LET A == [S EXCEPT !.call[c].attempt = @ + 1]
        more == MoreAttempts(A.call[c].attempt, A.call[c].retries)
    IN  IF LoopOutside(variant)
        THEN IF more THEN StartAttempt(A, c) ELSE Finish(A, c, "exhausted")
        ELSE IF more THEN AcquireSem(Exit(A, c), c)
                     ELSE Finish(Exit(A, c), c, "exhausted")

\* task.cancel() reaching the call at its await
Cancel(S, c) ==
    LET R == [S EXCEPT !.waiters = Remove(@, c)]
    IN  IF S.call[c].pc = "granted"
        THEN Release([R EXCEPT !.call[c].pc = "done",
                               !.call[c].outcome = "cancelled"])
        ELSE Finish(R, c, "cancelled")

Now == Sem(call, permits, waiters)

-----------------------------------------------------------------------------
(* Bulk units *)

\* the request a unit of each script sends
BulkMethod(v) ==
    CASE v = "delete" -> "DELETE"
      [] v = "export" -> "GET"
      [] v = "import" -> "POST"

\* the endpoints a unit calls through execute_api, in order
UnitCalls(v) ==
    CASE v = "delete" -> <<"/apps/{id}">>
      [] v = "export" -> <<"/apps/{id}/export">>
      [] v = "import" -> <<"/apps/imports">>

CatchesNever(v) == FALSE
\* delete_app wraps execute_api in try / except Exception; download_yml_file
\* and upload_yml_file do not
Catches(v) == v = "delete"

\* the state of a unit, given the state of its execute_api call
UnitAfter(r) ==
    CASE r.pc \in {"new", "waiting", "granted"} /\ r.sent = 0 -> "pending"
      [] r.pc # "done" -> "inflight"
      [] r.outcome = "returned" -> "succeeded"
      [] r.outcome = "cancelled" -> "cancelled"
      [] OTHER -> IF Catches(variant) THEN "failed" ELSE "raised"

\* download_yml_file writes the file after execute_api returned
SavedAfter(r) ==
    variant = "export" /\ r.pc = "done" /\ r.outcome = "returned"

\* the executor moves to state S, with everything that follows in the units
Step(S) ==
    /\ call' = S.call
    /\ permits' = S.permits
    /\ waiters' = S.waiters
    /\ unit' = [u \in DOMAIN unit |-> UnitAfter(S.call[u])]
    /\ saved' = saved \cup {u \in DOMAIN unit : SavedAfter(S.call[u])}

-----------------------------------------------------------------------------
(* Actions of execute_api *)

\* the caller awaits execute_api(...)
Invoke(c) ==
    /\ call[c].pc = "new"
    /\ Step(Enter(Now, c))
    /\ UNCHANGED <<variant, mainVars, uniqVars, coord, listVars>>

\* a waiter that was handed a permit resumes
Acquire(c) ==
    /\ call[c].pc = "granted"
    /\ Step(ResumeSem(Now, c))
    /\ UNCHANGED <<variant, mainVars, uniqVars, coord, listVars>>

\* the server answers the pending request of call c with a
Respond(c, a) ==
    /\ call[c].pc = "inflight"
    /\ Step(AfterResponse(Now, c, a))
    /\ UNCHANGED <<variant, mainVars, uniqVars, coord, listVars>>

\* the backoff sleep of call c is over
Wake(c) ==
    /\ call[c].pc = "sleep"
    /\ Step(AfterSleep(Now, c))
    /\ UNCHANGED <<variant, mainVars, uniqVars, coord, listVars>>

-----------------------------------------------------------------------------
(* A single call of execute_api with any method and any retries argument *)

ListIdle ==
    /\ listPc = "idle"
    /\ page = 0
    /\ app_num = 0
    /\ max_page_num = 0
    /\ app_list = <<>>
    /\ reqPages = <<>>
    /\ got = <<>>

BulkIdle ==
    /\ coord = "idle"
    /\ unit = <<>>
    /\ saved = {}

MainIdle ==
    /\ mainPc = "idle"
    /\ access_token = "none"
    /\ login_response = NoResult
    /\ dsl_files = 0

UniqIdle ==
    /\ uniqPc = "idle"
    /\ apps = <<>>
    /\ unique_apps = <<>>
    /\ same_app_names = <<>>

SemIdle ==
    /\ permits = MAX_CONCURRENT_TASKS
    /\ waiters = <<>>

InitExec ==
    /\ variant \in Variants
    /\ SemIdle
    /\ \E m \in Methods, k \in 0..MaxRetries : call = <<NewCall(m, k)>>
    /\ BulkIdle
    /\ ListIdle
    /\ MainIdle
    /\ UniqIdle

NextExec ==
    \/ \E c \in DOMAIN call : Invoke(c)
    \/ \E c \in DOMAIN call : \E a \in Answers : Respond(c, a)
    \/ \E c \in DOMAIN call : Wake(c)

SpecExec == InitExec /\ [][NextExec]_vars

-----------------------------------------------------------------------------
(* The fan-out coordinator: delete_apps, download_yml_files,               *)
(* upload_yml_files, run by main under asyncio.run                         *)

InitBulk ==
    /\ variant \in Variants
    /\ SemIdle
    /\ \E n \in 1..NumUnits :
          /\ call = [u \in 1..n |-> NewCall(BulkMethod(variant), DefaultRetries)]
          /\ unit = [u \in 1..n |-> "pending"]
    /\ coord = "start"
    /\ saved = {}
    /\ ListIdle
    /\ MainIdle
    /\ UniqIdle

RECURSIVE EnterFrom(_, _)
\* the tasks start in creation order, each up to its first suspension
EnterFrom(S, u) ==
    IF u > Len(S.call) THEN S ELSE EnterFrom(Enter(S, u), u + 1)

RECURSIVE CancelFrom(_, _)
\* the tasks still running are cancelled, each at its await
CancelFrom(S, u) ==
    IF u > Len(S.call) THEN S
    ELSE CancelFrom(IF S.call[u].pc = "done" THEN S ELSE Cancel(S, u), u + 1)

\* tasks = [asyncio.create_task(...) for ...]; await asyncio.gather(*tasks)
Schedule ==
    /\ coord = "start"
    /\ coord' = "gathering"
    /\ Step(EnterFrom(Now, 1))
    /\ UNCHANGED <<variant, mainVars, uniqVars, listVars>>

\* gather (return_exceptions = False) hands the first exception of a task to
\* its awaiter at once; the other tasks are left running
GatherRaises ==
    /\ coord = "gathering"
    /\ \E u \in DOMAIN unit : unit[u] = "raised"
    /\ coord' = "failed"
    /\ UNCHANGED <<variant, mainVars, uniqVars, permits, waiters, call, unit,
                   saved, listVars>>

\* gather returns once every task is done and none raised
GatherReturns ==
    /\ coord = "gathering"
    /\ \A u \in DOMAIN unit : unit[u] \in {"succeeded", "failed"}
    /\ coord' = "returned"
    /\ UNCHANGED <<variant, mainVars, uniqVars, permits, waiters, call, unit,
                   saved, listVars>>

\* the exception leaves main; asyncio.run cancels the tasks still running
Teardown ==
    /\ coord = "failed"
    /\ coord' = "aborted"
    /\ Step(CancelFrom(Now, 1))
    /\ UNCHANGED <<variant, mainVars, uniqVars, listVars>>

NextBulk ==
    \/ Schedule
    \/ \E c \in DOMAIN call : Acquire(c)
    \/ \E c \in DOMAIN call : \E a \in BulkAnswers : Respond(c, a)
    \/ \E c \in DOMAIN call : Wake(c)
    \/ GatherRaises
    \/ GatherReturns
    \/ Teardown

SpecBulk == InitBulk /\ [][NextBulk]_vars

\* the event loop runs every task that is ready, sleeps end, and every
\* request that was sent is answered
FairBulk ==
    /\ WF_vars(Schedule)
    /\ WF_vars(GatherRaises)
    /\ WF_vars(GatherReturns)
    /\ WF_vars(Teardown)
    /\ \A c \in 1..NumUnits :
          /\ WF_vars(c \in DOMAIN call /\ Acquire(c))
          /\ WF_vars(c \in DOMAIN call /\ Wake(c))
          /\ WF_vars(c \in DOMAIN call /\ \E a \in BulkAnswers : Respond(c, a))

SpecBulkFair == SpecBulk /\ FairBulk

-----------------------------------------------------------------------------
(* get_app_list (delete.py, export.py, main.py, dify_api.py)               *)

\* the totals and page lengths a listing response may carry (-1: key absent)
ListTotals == {-1, 0, 1, limit + 1, MaxPages * limit}
ListSizes == {-1, 0, 1, limit}

ListAnswers ==
    {Answer(200, <<Dict(1, t, n)>>) : t \in ListTotals, n \in ListSizes}
        \cup {Answer(200, <<>>), Answer(500, <<>>)}

\* content.get("total", 0)
GetTotal(d) == IF d.total = -1 THEN 0 ELSE d.total

GetDataReversed(p, d) ==
    LET n == IF d.n = -1 THEN 0 ELSE d.n IN [i \in 1..n |-> <<p, n + 1 - i>>]
\* the items built from content.get("data", []), named by page and position
GetData(p, d) == [i \in 1..(IF d.n = -1 THEN 0 ELSE d.n) |-> <<p, i>>]

\* app_num // limit + (app_num % limit > 0)
MaxPageNum(t) == (t \div limit) + (IF t % limit > 0 THEN 1 ELSE 0)

ReadsTotalOnEveryPage(p) == TRUE
\* if page == 1: the only place app_num and max_page_num are assigned
ReadsTotal(p) == p = 1

\* fetch_app_per_page(access_token, page, limit)
FetchPage(p) ==
    /\ reqPages' = Append(reqPages, p)
    /\ Step(Enter(Sem(<<NewCall("GET", DefaultRetries)>>, permits, waiters), 1))

InitList ==
    /\ variant \in {"delete", "export"}
    /\ SemIdle
    /\ call = <<NewCall("GET", DefaultRetries)>>
    /\ BulkIdle
    /\ MainIdle
    /\ UniqIdle
    /\ listPc = "start"
    /\ page = 1
    /\ app_num = 0
    /\ max_page_num = 0
    /\ app_list = <<>>
    /\ reqPages = <<>>
    /\ got = <<>>

\* entry of get_app_list up to the first request
ListStart ==
    /\ listPc = "start"
    /\ listPc' = "await"
    /\ FetchPage(page)
    /\ UNCHANGED <<variant, mainVars, uniqVars, coord, page, app_num,
                   max_page_num, app_list, got>>

\* fetch_app_per_page raised: the exception leaves get_app_list
ListRaises ==
    /\ listPc = "await"
    /\ call[1].pc = "done"
    /\ call[1].outcome # "returned"
    /\ listPc' = "raised"
    /\ UNCHANGED <<variant, mainVars, uniqVars, permits, waiters, call,
                   bulkVars, page, app_num, max_page_num, app_list, reqPages,
                   got>>

\* fetch_app_per_page returned: the rest of the loop body, and the next
\* request when the loop goes on
ListResume ==
    /\ listPc = "await"
    /\ call[1].pc = "done"
    /\ call[1].outcome = "returned"
    /\ got' = Append(got, call[1].result)
    /\ LET content == call[1].result
           num == IF ReadsTotal(page) THEN GetTotal(content) ELSE app_num
           maxp == IF ReadsTotal(page) THEN MaxPageNum(num) ELSE max_page_num
       IN  /\ app_num' = num
           /\ max_page_num' = maxp
           /\ IF num = 0
              THEN /\ listPc' = "returned"
                   /\ app_list' = <<>>
                   /\ UNCHANGED <<page, reqPages, permits, waiters, call,
                                  bulkVars>>
              ELSE IF page > maxp
              THEN /\ listPc' = "returned"
                   /\ UNCHANGED <<page, reqPages, app_list, permits, waiters,
                                  call, bulkVars>>
              ELSE /\ app_list' = app_list \o GetData(page, content)
                   /\ page' = page + 1
                   /\ listPc' = "await"
                   /\ FetchPage(page + 1)
                   /\ UNCHANGED coord
    /\ UNCHANGED <<variant, mainVars, uniqVars>>

NextList ==
    \/ ListStart
    \/ \E a \in ListAnswers : Respond(1, a)
    \/ Wake(1)
    \/ ListRaises
    \/ ListResume

SpecList == InitList /\ [][NextList]_vars

-----------------------------------------------------------------------------
(* check_uniquename (delete.py, export.py, main.py).  A string is the      *)
(* sequence of its characters; a resource is a dict with "id" and "name".  *)

MaxLen == 3          \* longest collection handed to check_uniquename

\* the prefix of a synthesized name; "[" and "]" stand for the lenticular
\* brackets U+3010 and U+3011 of the source
Marker == <<"[", "s", "a", "m", "e", "]">>

\* ids as the server assigns them (UUIDs, cut after the second group), and
\* one id without a dash; Id1 and Id3 agree on their first group
Id1 == <<"0", "0", "0", "0", "0", "0", "0", "1", "-", "a">>
Id2 == <<"0", "0", "0", "0", "0", "0", "0", "2", "-", "a">>
Id3 == <<"0", "0", "0", "0", "0", "0", "0", "1", "-", "b">>
Id4 == <<"b", "2">>
Ids == {Id1, Id2, Id3, Id4}

\* names a user may give; the last one is spelled like a synthesized name
NameX == <<"X">>
NameY == <<"Y">>
NameZ == Marker \o NameX \o <<"-">> \o SubSeq(Id2, 1, 8)
Names == {NameX, NameY, NameZ}

App(i, nm) == [id |-> i, name |-> nm]

\* the collections the listing can hand over: the server gives every
\* resource its own id
AppLists ==
    UNION {{xs \in [1..n -> {App(i, nm) : i \in Ids, nm \in Names}] :
               \A j, k \in 1..n : j # k => xs[j].id # xs[k].id} : n \in 0..MaxLen}

\* x['id'].split('-')[0]
SplitFirst(id) ==
    LET dashes == {i \in 1..Len(id) : id[i] = "-"}
    IN  IF dashes = {} THEN id ELSE SubSeq(id, 1, Min(dashes) - 1)

ModifiedNameNoMarker(x) == x.name \o <<"-">> \o SplitFirst(x.id)
\* Marker + x['name'] + '-' + x['id'].split('-')[0]
ModifiedName(x) == Marker \o x.name \o <<"-">> \o SplitFirst(x.id)

RenamedShortId(x, nm) == [id |-> SplitFirst(x.id), name |-> nm]
\* {"id": x['id'], "name": modified_name}
Renamed(x, nm) == [id |-> x.id, name |-> nm]

\* ' -> ' in delete.py, '->' in export.py and main.py
Arrow(v) == IF v = "delete" THEN <<" ", "-", ">", " ">> ELSE <<"-", ">">>

\* x['name'] + ' -> ' + modified_name
RenameRecord(old, new) == old \o Arrow(variant) \o new

IsSeenAlways(nm, seen) == TRUE
\* x['name'] in unique_names
IsSeen(nm, seen) == nm \in seen

\* the locals check_uniquename works on: the two lists of main it appends
\* to and its set unique_names
Uniq(u, s, seen) ==
    [unique_apps |-> u, same_app_names |-> s, unique_names |-> seen]

\* one iteration of `for x in apps`
Visit(st, x) ==
    IF IsSeen(x.name, st.unique_names)
    THEN Uniq(Append(st.unique_apps, Renamed(x, ModifiedName(x))),
              Append(st.same_app_names,
                     RenameRecord(x.name, ModifiedName(x))),
              st.unique_names)
    ELSE Uniq(Append(st.unique_apps, x), st.same_app_names,
              st.unique_names \cup {x.name})

RECURSIVE VisitFrom(_, _, _)
\* the for loop from the i-th element on
VisitFrom(xs, i, st) ==
    IF i > Len(xs) THEN st ELSE VisitFrom(xs, i + 1, Visit(st, xs[i]))

\* check_uniquename(), called when main's lists are u and s
CheckUniquename(xs, u, s) == VisitFrom(xs, 1, Uniq(u, s, {}))

InitUniq ==
    /\ variant \in {"delete", "export"}
    /\ SemIdle
    /\ call = <<>>
    /\ BulkIdle
    /\ ListIdle
    /\ MainIdle
    /\ uniqPc = "start"
    /\ apps \in AppLists
    /\ unique_apps = <<>>
    /\ same_app_names = <<>>

\* main: check_uniquename()
RunCheckUniquename ==
    /\ uniqPc = "start"
    /\ uniqPc' = "done"
    /\ LET st == CheckUniquename(apps, unique_apps, same_app_names)
       IN  /\ unique_apps' = st.unique_apps
           /\ same_app_names' = st.same_app_names
    /\ UNCHANGED <<variant, permits, waiters, call, bulkVars, listVars,
                   mainVars, apps>>

NextUniq == RunCheckUniquename

SpecUniq == InitUniq /\ [][NextUniq]_vars

-----------------------------------------------------------------------------
(* main, run by asyncio.run (delete.py, export.py, main.py, import.py)     *)

MaxApps == 2         \* most resources (or DSL files) a whole run handles

\* {"result": "success", "data": {"access_token": ...}} and any other dict
LoginSuccess == Dict(3, -1, -1)
LoginFailure == Dict(4, -1, -1)

LoginAnswers ==
    {Answer(200, <<LoginSuccess>>), Answer(200, <<LoginFailure>>),
     Answer(200, <<>>), Answer(500, <<>>)}

\* what the server may answer to a listing request of a whole run
MainListAnswers ==
    {Answer(200, <<Dict(1, t, n)>>) : t \in 0..MaxApps, n \in 0..MaxApps}
        \cup {Answer(200, <<>>), Answer(500, <<>>)}

\* the answers to the request main is waiting for
MainAnswers ==
    CASE mainPc = "login" -> LoginAnswers
      [] mainPc = "listing" -> MainListAnswers
      [] OTHER -> BulkAnswers

LoginOkAlways(d) == TRUE
\* response.get("result") == "success"
LoginOk(d) == d = LoginSuccess

NoAppsNever(l) == FALSE
\* if not apps
NoApps(l) == l = <<>>

MismatchNever(l, num) == FALSE
\* if len(apps) != app_num
Mismatch(l, num) == Len(l) # num

\* the ids and names the listing carried for its items, in listing order
IdSeq == <<Id1, Id2, Id3, Id4>>
NameSlash == <<"a", "/", "b">>
NameDash == <<"a", "-", "b">>
MainNames == {NameX, NameSlash, NameDash}

UnitAppFirst(u) == unique_apps[1]
\* [create_task(unit(access_token, app)) for app in apps]: the app of unit u
UnitApp(u) == unique_apps[u]

\* the id in the url of the unit's request: app['id']
TargetId(u) == UnitApp(u).id

\* replace_appname: app_name.replace("/", "-")
ReplaceAppname(nm) ==
    [i \in 1..Len(nm) |-> IF nm[i] = "/" THEN "-" ELSE nm[i]]

\* the base name of f"{DSL_FOLDER_PATH}/{replace_app_name}.yml"
FileName(u) == ReplaceAppname(UnitApp(u).name)

\* the files of the DSL folder: create_dsl_folder empties it and each saved
\* unit opens its file with "wb"
DslFolder == {FileName(u) : u \in saved}

InitMain ==
    /\ variant \in Variants
    /\ SemIdle
    /\ call = <<>>
    /\ BulkIdle
    /\ ListIdle
    /\ UniqIdle
    /\ mainPc = "start"
    /\ access_token = "none"
    /\ login_response = NoResult
    /\ dsl_files \in (IF variant = "import" THEN 0..MaxApps ELSE {0})

\* the coordinator is called with n resources
StartBulk(n) ==
    /\ mainPc' = "bulk"
    /\ coord' = "start"
    /\ call' = [u \in 1..n |-> NewCall(BulkMethod(variant), DefaultRetries)]
    /\ unit' = [u \in 1..n |-> "pending"]

\* main up to the request of login_and_get_token
MainLogin ==
    /\ mainPc = "start"
    /\ mainPc' = "login"
    /\ Step(Enter(Sem(<<NewCall("POST", DefaultRetries)>>, permits, waiters), 1))
    /\ UNCHANGED <<variant, coord, listVars, access_token, login_response,
                   dsl_files, uniqVars>>

\* execute_api raised, or the response does not report success:
\* raise Exception("Login failed")
LoginRaises ==
    /\ mainPc = "login"
    /\ call[1].pc = "done"
    /\ call[1].outcome # "returned" \/ ~LoginOk(call[1].result)
    /\ mainPc' = "raised"
    /\ login_response' = call[1].result
    /\ UNCHANGED <<variant, permits, waiters, call, bulkVars, listVars,
                   access_token, dsl_files, uniqVars>>

\* login returned the token: main goes on to get_app_list, or in import.py
\* to get_dsl_files and upload_yml_files
LoginReturns ==
    /\ mainPc = "login"
    /\ call[1].pc = "done"
    /\ call[1].outcome = "returned"
    /\ LoginOk(call[1].result)
    /\ login_response' = call[1].result
    /\ access_token' = "token"
    /\ IF variant = "import"
       THEN /\ IF dsl_files = 0
               THEN /\ mainPc' = "closed"
                    /\ UNCHANGED <<coord, call, unit>>
               ELSE StartBulk(dsl_files)
            /\ UNCHANGED <<listVars, saved>>
       ELSE /\ mainPc' = "listing"
            /\ listPc' = "start"
            /\ page' = 1
            /\ UNCHANGED <<app_num, max_page_num, app_list, reqPages, got,
                           call, bulkVars>>
    /\ UNCHANGED <<variant, permits, waiters, dsl_files, uniqVars>>

\* get_app_list raised: the exception leaves main
MainListRaises ==
    /\ mainPc = "listing"
    /\ listPc = "raised"
    /\ mainPc' = "raised"
    /\ UNCHANGED <<variant, permits, waiters, call, bulkVars, listVars,
                   access_token, login_response, dsl_files, uniqVars>>

\* get_app_list returned: the two checks, check_uniquename() and the call of
\* the coordinator
MainChecks ==
    /\ mainPc = "listing"
    /\ listPc = "returned"
    /\ IF NoApps(app_list)
       THEN /\ mainPc' = "no_apps"
            /\ UNCHANGED <<coord, call, unit, uniqVars>>
       ELSE IF Mismatch(app_list, app_num)
       THEN /\ mainPc' = "mismatch"
            /\ UNCHANGED <<coord, call, unit, uniqVars>>
       ELSE \E nm \in [1..Len(app_list) -> MainNames] :
               LET xs == [i \in 1..Len(app_list) |-> App(IdSeq[i], nm[i])]
                   st == CheckUniquename(xs, <<>>, <<>>)
               IN  /\ apps' = xs
                   /\ uniqPc' = "done"
                   /\ unique_apps' = st.unique_apps
                   /\ same_app_names' = st.same_app_names
                   /\ StartBulk(Len(st.unique_apps))
    /\ UNCHANGED <<variant, permits, waiters, saved, listVars, access_token,
                   login_response, dsl_files>>

\* the coordinator returned: await client.aclose()
MainCloses ==
    /\ mainPc = "bulk"
    /\ coord = "returned"
    /\ mainPc' = "closed"
    /\ UNCHANGED <<variant, permits, waiters, call, bulkVars, listVars,
                   access_token, login_response, dsl_files, uniqVars>>

\* the coordinator raised: the exception leaves main
MainBulkRaises ==
    /\ mainPc = "bulk"
    /\ coord = "failed"
    /\ mainPc' = "raised"
    /\ UNCHANGED <<variant, permits, waiters, call, bulkVars, listVars,
                   access_token, login_response, dsl_files, uniqVars>>

NextMain ==
    \/ MainLogin
    \/ \E c \in DOMAIN call : \E a \in MainAnswers : Respond(c, a)
    \/ \E c \in DOMAIN call : Wake(c)
    \/ LoginRaises
    \/ LoginReturns
    \/ ListStart
    \/ ListRaises
    \/ ListResume
    \/ MainListRaises
    \/ MainChecks
    \/ Schedule
    \/ GatherRaises
    \/ GatherReturns
    \/ MainCloses
    \/ MainBulkRaises
    \/ (mainPc = "raised" /\ Teardown)

SpecMain == InitMain /\ [][NextMain]_vars

-----------------------------------------------------------------------------
(* Several tasks calling execute_api at once, with any argument, and an    *)
(* HTTP client that may raise instead of answering                         *)

MaxCalls == 4        \* most concurrent callers of execute_api

\* the (method_type, retries) arguments of a caller
CallArgs == {<<"POST", 1>>, <<"PUT", 2>>, <<"POST", 0>>}

\* what the server may answer to a request of such a caller
SlotAnswers ==
    {Answer(200, <<Body1>>), Answer(200, <<>>), Answer(500, <<>>)}

\* client.post / get / delete raises (httpx.HTTPError) at its await
ClientRaises(c) ==
    /\ call[c].pc = "inflight"
    /\ Step(Raise(Now, c, "http_error"))
    /\ UNCHANGED <<variant, mainVars, uniqVars, coord, listVars>>

InitSlots ==
    /\ variant \in Variants
    /\ SemIdle
    /\ \E n \in 1..MaxCalls :
          \E args \in [1..n -> CallArgs] :
              call = [c \in 1..n |-> NewCall(args[c][1], args[c][2])]
    /\ BulkIdle
    /\ ListIdle
    /\ MainIdle
    /\ UniqIdle

\* the callers are tasks created together: each runs up to its first
\* suspension, in creation order
StartAll ==
    /\ \A c \in DOMAIN call : call[c].pc = "new"
    /\ Step(EnterFrom(Now, 1))
    /\ UNCHANGED <<variant, mainVars, uniqVars, coord, listVars>>

NextSlots ==
    \/ StartAll
    \/ \E c \in DOMAIN call : Acquire(c)
    \/ \E c \in DOMAIN call : \E a \in SlotAnswers : Respond(c, a)
    \/ \E c \in DOMAIN call : Wake(c)
    \/ \E c \in DOMAIN call : ClientRaises(c)

SpecSlots == InitSlots /\ [][NextSlots]_vars

-----------------------------------------------------------------------------
(* Properties of a single call *)

\* a status the executor contract counts as success for method m
OkStatus(m, s) == s = 200 \/ (m = "DELETE" /\ s = 204)

Statuses(r) == [i \in 1..Len(r.resps) |-> r.resps[i].status]

\* every request the call sent was answered with a non-success status
AllAnswersFailed(r) ==
    /\ r.sent >= 1
    /\ Len(r.resps) = r.sent
    /\ \A i \in 1..Len(r.resps) : ~OkStatus(r.method, r.resps[i].status)

\* C6 (as amended): a call whose every attempt is answered with a
\* non-success status, called with retries = k >= 1, fails with the
\* exhausted-retries error after exactly k requests and exactly k backoff
\* sleeps: a sleep follows every failed attempt, the last one included.
C6_ExhaustedAfterKAttemptsKSleeps ==
    \A c \in DOMAIN call :
        (call[c].pc = "done" /\ AllAnswersFailed(call[c]))
            => /\ call[c].outcome = "exhausted"
               /\ call[c].sent = call[c].retries
               /\ call[c].sleeps = call[c].retries

\* C6 as stated: k attempts and k-1 sleeps, no sleep after the last attempt
C6_Original_KMinusOneSleeps ==
    \A c \in DOMAIN call :
        (call[c].pc = "done" /\ AllAnswersFailed(call[c]))
            => /\ call[c].outcome = "exhausted"
               /\ call[c].sent = call[c].retries
               /\ call[c].sleeps = call[c].retries - 1

C6_Witness ==
    \E c \in DOMAIN call :
        /\ call[c].pc = "done"
        /\ call[c].outcome = "exhausted"
        /\ call[c].retries = 3
        /\ Statuses(call[c]) = <<500, 500, 500>>
        /\ call[c].sleeps = 3

\* C7: when the first j answers are non-success and answer j+1 is a 200
\* carrying a body (j < retries), the call has returned, its result is the
\* parsed body of answer j+1 and exactly j+1 requests were sent.
C7_SuccessAfterJFailures ==
    \A c \in DOMAIN call :
        LET r == call[c]
            n == Len(r.resps)
        IN  (n >= 1 /\ r.resps[n].status = 200 /\ r.resps[n].content # <<>>
               /\ \A i \in 1..(n - 1) : ~OkStatus(r.method, r.resps[i].status))
            => /\ r.pc = "done"
               /\ r.outcome = "returned"
               /\ r.result = r.resps[n].content[1]
               /\ r.sent = n
               /\ n <= r.retries

C7_Witness ==
    \E c \in DOMAIN call :
        /\ call[c].retries = 3
        /\ Statuses(call[c]) = <<500, 500, 200>>
        /\ call[c].resps[3].content = <<Body2>>
        /\ call[c].outcome = "returned"
        /\ call[c].result = Body2

\* C8: a call with an unsupported method (retries >= 1) sends no request,
\* sleeps never, consumes no attempt, and ends with the invalid-method error.
C8_InvalidMethodFailsImmediately ==
    \A c \in DOMAIN call :
        (call[c].method \notin Supported(variant) /\ call[c].retries >= 1)
            => /\ call[c].sent = 0
               /\ call[c].sleeps = 0
               /\ call[c].attempt = 0
               /\ call[c].pc = "done" => call[c].outcome = "invalid"

\* C9: an answer ends the call with success exactly when it is a 200 (result:
\* the parsed body, the empty object for an empty content) or a 204 on DELETE
\* (result: the empty object), and nothing is sent after it; every other
\* answer consumes an attempt and is followed by a backoff sleep.
C9_SuccessExactlyOn200Or204Delete ==
    \A c \in DOMAIN call :
        LET r == call[c]
            n == Len(r.resps)
            failed == {i \in 1..n : ~OkStatus(r.method, r.resps[i].status)}
        IN  /\ \A i \in 1..n :
                 OkStatus(r.method, r.resps[i].status)
                   => /\ i = n
                      /\ r.sent = n
                      /\ r.pc = "done"
                      /\ r.outcome = "returned"
                      /\ r.result =
                           IF r.resps[i].status = 200 /\ r.resps[i].content # <<>>
                           THEN r.resps[i].content[1]
                           ELSE EmptyDict
            /\ r.outcome = "returned"
                 => n >= 1 /\ OkStatus(r.method, r.resps[n].status)
            /\ Cardinality(failed) <= r.sleeps
            /\ Cardinality(failed) <= r.attempt + (IF r.pc = "sleep" THEN 1 ELSE 0)

-----------------------------------------------------------------------------
(* Properties of the concurrency slots and of the coordinator *)

InFlight == {c \in DOMAIN call : call[c].pc = "inflight"}
Waiting == {c \in DOMAIN call : call[c].pc = "waiting"}
InBackoff ==
    {c \in DOMAIN call : call[c].pc = "sleep" /\ call[c].cause = "status"}
Completed == coord \in {"returned", "failed", "aborted"}

\* C1: the number of requests sent and not yet answered never exceeds
\* MAX_CONCURRENT_TASKS, however many units were scheduled.
C1_InFlightAtMostN == Cardinality(InFlight) <= MAX_CONCURRENT_TASKS

C1_Witness ==
    /\ Cardinality(InFlight) = MAX_CONCURRENT_TASKS
    /\ Waiting # {}
    /\ Cardinality(DOMAIN unit) > MAX_CONCURRENT_TASKS

\* C2 (as amended): a call in its backoff sleep after a non-success status
\* still holds its slot; delete.py, export.py, main.py and dify_api.py acquire
\* the slot once per logical call; so with N calls sleeping in backoff no
\* permit is free for a waiting call.
C2_SlotHeldDuringBackoff ==
    /\ \A c \in InBackoff : call[c].holds
    /\ variant \in {"delete", "export"}
          => \A c \in DOMAIN call : call[c].acquired <= 1
    /\ Cardinality(InBackoff) = MAX_CONCURRENT_TASKS => permits = 0

\* C2 as stated: a call in its backoff sleep after a failed attempt holds no
\* slot
C2_Original_NoSlotDuringBackoff ==
    \A c \in InBackoff : ~call[c].holds

C2_Witness ==
    /\ Cardinality(InBackoff) = MAX_CONCURRENT_TASKS
    /\ Waiting # {}
    /\ permits = 0

Succeeded == {u \in DOMAIN unit : unit[u] = "succeeded"}
Failed == {u \in DOMAIN unit : unit[u] = "failed"}

\* the unit's requests were all answered with a non-success status
AlwaysFails(u) ==
    /\ Len(call[u].resps) = DefaultRetries
    /\ \A i \in 1..DefaultRetries :
          ~OkStatus(call[u].method, call[u].resps[i].status)

\* one of the unit's requests was answered with a success status
GotSuccess(u) ==
    \E i \in 1..Len(call[u].resps) :
        OkStatus(call[u].method, call[u].resps[i].status)

\* C3: in a bulk delete a unit whose delete exhausts its retries fails alone:
\* delete_apps never fails and no unit is cancelled, and when delete_apps has
\* returned every unit is succeeded or failed, the failed ones being exactly
\* those whose every request was answered with a non-success status.
C3_DeleteFailureIsolated ==
    variant = "delete" =>
        /\ coord \notin {"failed", "aborted"}
        /\ \A u \in DOMAIN unit : unit[u] \notin {"raised", "cancelled"}
        /\ coord = "returned" =>
              /\ Failed = {u \in DOMAIN unit : AlwaysFails(u)}
              /\ Succeeded = {u \in DOMAIN unit : GotSuccess(u)}
              /\ Succeeded \cup Failed = DOMAIN unit
              /\ Cardinality(Succeeded) =
                    Cardinality(DOMAIN unit) - Cardinality(Failed)

C3_Witness ==
    /\ variant = "delete"
    /\ coord = "returned"
    /\ Cardinality(DOMAIN unit) = 4
    /\ Failed = {3}
    /\ Succeeded = {1, 2, 4}
    /\ AlwaysFails(3)

\* C4: in a bulk export the failure of one unit never aborts or cancels a
\* sibling: no unit is ever cancelled, and every unit whose request was
\* answered with success is exported and saved.
C4_ExportFailureIsolated ==
    variant = "export" =>
        /\ \A u \in DOMAIN unit : unit[u] # "cancelled"
        /\ \A u \in DOMAIN unit : GotSuccess(u) => u \in saved

\* C5: the coordinator has completed (returned or failed) only when every
\* unit it scheduled is in a terminal state.
C5_CoordinatorIsBarrier ==
    Completed => \A u \in DOMAIN unit : unit[u] \notin {"pending", "inflight"}

-----------------------------------------------------------------------------
(* Properties of get_app_list *)

\* C10: once the first page reported total > 0, the pages requested are
\* 1, 2, ... in increasing order, one at a time, and none is greater than
\* max_page_num = ceil(total / limit).
C10_NoPageBeyondMaxPage ==
    app_num > 0 =>
        /\ \A i \in 1..Len(reqPages) : reqPages[i] = i
        /\ Cardinality(InFlight) <= 1
        /\ \A i \in 1..Len(reqPages) : reqPages[i] <= max_page_num
        /\ max_page_num * limit >= app_num
        /\ (max_page_num - 1) * limit < app_num

-----------------------------------------------------------------------------
(* Properties of get_app_list, continued *)

\* the items the p-th response carried, in the order it carried them
PageItems(p) ==
    [i \in 1..(IF got[p].n = -1 THEN 0 ELSE got[p].n) |-> <<p, i>>]

RECURSIVE ConcatPages(_)
\* the items of pages 1..k, page after page
ConcatPages(k) == IF k = 0 THEN <<>> ELSE ConcatPages(k - 1) \o PageItems(k)

\* C11: the collection get_app_list returns is the concatenation of the
\* items of pages 1..max_page, in page order and in each page's own order,
\* with nothing dropped, duplicated or reordered, whatever the total says.
C11_ListIsConcatenationOfPages ==
    listPc = "returned"
        => /\ max_page_num <= Len(got)
           /\ app_list = ConcatPages(max_page_num)

\* two pages were aggregated and their items are fewer than the total
C11_Witness ==
    /\ listPc = "returned"
    /\ max_page_num = 2
    /\ Len(app_list) = limit + 1
    /\ app_num = 2 * limit

\* C14: total and max_page come from the first page's response only; the
\* total of a later page (equal, larger, smaller or missing) changes neither
\* the total returned nor the number of pages requested.
C14_TotalFromFirstPageOnly ==
    Len(got) >= 1
        => /\ app_num = GetTotal(got[1])
           /\ max_page_num = MaxPageNum(GetTotal(got[1]))
           /\ Len(reqPages) <= MaxPageNum(GetTotal(got[1])) + 1
           /\ (listPc = "returned" /\ GetTotal(got[1]) > 0)
                  => Len(reqPages) = MaxPageNum(GetTotal(got[1])) + 1

\* get_app_list returned after a later page reported another total
C14_Witness ==
    /\ listPc = "returned"
    /\ app_num > 0
    /\ \E p \in 2..Len(got) : got[p].total # got[1].total /\ got[p].total # -1

-----------------------------------------------------------------------------
(* Properties of check_uniquename *)

\* an earlier element of the input carries the name of the i-th
Earlier(i) == \E j \in 1..(i - 1) : apps[j].name = apps[i].name

\* the first 8 characters of an id
First8(id) == SubSeq(id, 1, IF Len(id) < 8 THEN Len(id) ELSE 8)

\* the positions of the input that are given a new name
RenamedAt == {i \in 1..Len(apps) : Earlier(i)}

DistinctIds ==
    \A i, j \in 1..Len(apps) : i # j => apps[i].id # apps[j].id

DistinctNames ==
    \A i, j \in 1..Len(apps) : i # j => apps[i].name # apps[j].name

\* C16: check_uniquename gives collision-free names: for every input whose
\* ids are pairwise distinct the output names are pairwise distinct.
C16_OutputNamesPairwiseDistinct ==
    (uniqPc = "done" /\ DistinctIds)
        => \A i, j \in 1..Len(unique_apps) :
               i # j => unique_apps[i].name # unique_apps[j].name

\* C17: check_uniquename goes through the input in order with a seen-set of
\* original names: an element whose name no earlier element carries keeps
\* it; one whose name an earlier element carries is named marker + name +
\* '-' + the first 8 characters of its id and yields exactly one rename
\* record; synthesized names are never compared against.
C17_RenamesLaterOccurrences ==
    uniqPc = "done"
        => /\ Len(unique_apps) = Len(apps)
           /\ \A i \in 1..Len(apps) :
                  unique_apps[i].name =
                      IF Earlier(i)
                      THEN Marker \o apps[i].name \o <<"-">>
                               \o First8(apps[i].id)
                      ELSE apps[i].name
           /\ Len(same_app_names) = Cardinality(RenamedAt)
           /\ \A i \in RenamedAt :
                  same_app_names[Cardinality({j \in RenamedAt : j <= i})] =
                      apps[i].name \o Arrow(variant) \o unique_apps[i].name

\* two resources named X, the second with id b2: one rename record
C17_Witness ==
    /\ uniqPc = "done"
    /\ Len(apps) = 2
    /\ apps[1].name = NameX
    /\ apps[2] = App(Id4, NameX)
    /\ unique_apps[2].name = Marker \o NameX \o <<"-">> \o Id4
    /\ Len(same_app_names) = 1

\* C18: when no two resources of the input share a name, check_uniquename
\* returns the input unchanged (same resources, names and order) and an
\* empty rename list.
C18_DistinctNamesUnchanged ==
    (uniqPc = "done" /\ DistinctNames)
        => /\ unique_apps = apps
           /\ same_app_names = <<>>

\* a full-length input with pairwise distinct names went through
C18_Witness ==
    /\ uniqPc = "done"
    /\ Len(apps) = MaxLen
    /\ DistinctNames
    /\ unique_apps = apps

\* C19: the output of check_uniquename is as long as its input and its i-th
\* element has the id of the i-th input element; the input collection keeps
\* its own names.
C19_IdsAndInputPreserved ==
    [][/\ apps' = apps
       /\ uniqPc' = "done"
             => /\ Len(unique_apps') = Len(apps)
                /\ \A i \in 1..Len(apps) : unique_apps'[i].id = apps[i].id]_vars

\* an input with a dashed id whose element was renamed went through
C19_Witness ==
    /\ uniqPc = "done"
    /\ \E i \in RenamedAt :
          /\ apps[i].id # SplitFirst(apps[i].id)
          /\ unique_apps[i].id = apps[i].id
          /\ unique_apps[i].name # apps[i].name

-----------------------------------------------------------------------------
(* Properties of a whole run *)

ListingRun == variant \in {"delete", "export"}

\* C12: when the first page reports total = 0, get_app_list returns ([], 0)
\* right after that single page request, without error, and main of delete
\* and export reports that no resources were found and sends no bulk
\* request.
C12_ZeroTotalStopsBeforeBulk ==
    (ListingRun /\ Len(got) >= 1 /\ GetTotal(got[1]) = 0)
        => /\ listPc = "returned"
           /\ app_list = <<>>
           /\ app_num = 0
           /\ reqPages = <<1>>
           /\ Len(got) = 1
           /\ mainPc \in {"listing", "no_apps"}
           /\ coord = "idle"
           /\ unit = <<>>

\* main stopped with "no apps found" on a first page that reports total 0
\* and still carries an item
C12_Witness ==
    /\ mainPc = "no_apps"
    /\ got[1].total = 0
    /\ got[1].n >= 1
    /\ reqPages = <<1>>

\* get_app_list handed main a collection whose length is not the total
CountMismatch ==
    /\ ListingRun
    /\ listPc = "returned"
    /\ Len(app_list) # app_num

\* C13 (as amended): whenever the number of items aggregated differs from
\* the first page's total, main of delete and export stops before any bulk
\* operation starts and no delete or export request is sent; it reports the
\* count mismatch when at least one item was aggregated, and "no apps
\* found" when none was.
C13_MismatchStopsBeforeBulk ==
    CountMismatch
        => /\ coord = "idle"
           /\ unit = <<>>
           /\ mainPc \in {"listing", "mismatch", "no_apps"}
           /\ mainPc = "mismatch" => app_list # <<>>
           /\ mainPc = "no_apps" => app_list = <<>>

\* C13 (as stated): whenever the number of items aggregated differs from the
\* first page's total, main stops with the count mismatch before any bulk
\* operation starts.
C13_Original_AlwaysReportsMismatch ==
    (CountMismatch /\ mainPc # "listing")
        => /\ mainPc = "mismatch"
           /\ coord = "idle"

\* main stopped on the count mismatch with fewer items than the total
C13_Witness ==
    /\ mainPc = "mismatch"
    /\ 0 < Len(app_list)
    /\ Len(app_list) < app_num
    /\ coord = "idle"

\* C15: no bulk request (delete, export, import) is sent unless login
\* returned a response that reports success and, for delete and export,
\* every listing page fetch returned; a login that exhausts its retries or
\* does not report success, and a listing fetch that exhausts its retries,
\* end the run before any unit is scheduled.
C15_BulkOnlyAfterLoginAndListing ==
    /\ (coord # "idle" \/ unit # <<>>)
            => /\ login_response = LoginSuccess
               /\ access_token = "token"
               /\ ListingRun
                     => /\ listPc = "returned"
                        /\ Len(reqPages) >= 1
                        /\ Len(got) = Len(reqPages)
    /\ (mainPc = "raised" /\ (login_response # LoginSuccess
                                  \/ listPc = "raised"))
            => /\ coord = "idle"
               /\ unit = <<>>

\* a unit of a delete or export run has its request in flight, after a
\* login that reported success and a listing that returned
C15_Witness ==
    /\ ListingRun
    /\ mainPc = "bulk"
    /\ login_response = LoginSuccess
    /\ \E u \in DOMAIN unit : unit[u] = "inflight" /\ call[u].sent >= 1

-----------------------------------------------------------------------------
(* Properties of the bulk units *)

\* the moves of a unit: a failed unit is one whose call ended with an
\* error, caught in the unit ("failed") or leaving its task ("raised")
UnitMoves ==
    {<<"pending", "inflight">>, <<"inflight", "succeeded">>,
     <<"inflight", "failed">>, <<"inflight", "raised">>}

UnitTerminal == {"succeeded", "failed", "raised"}

\* C21: each bulk unit follows pending -> in-flight -> {succeeded, failed}:
\* a unit that reached succeeded or failed never changes state again and
\* never sends another request, and a unit sends at most max_attempts
\* requests in total.
C21_UnitStateMachine ==
    [][\A u \in DOMAIN unit :
          /\ unit'[u] # unit[u] => <<unit[u], unit'[u]>> \in UnitMoves
          /\ unit[u] \in UnitTerminal
                => /\ unit'[u] = unit[u]
                   /\ call'[u].sent = call[u].sent
          /\ call'[u].sent <= DefaultRetries]_vars

\* C23: in a bulk import a file whose import call exhausts its retries is a
\* failure of that file's unit only: upload_yml_files never fails, no unit
\* is cancelled, and when it has returned every unit has its own terminal
\* outcome.
C23_ImportFailureIsolated ==
    variant = "import" =>
        /\ coord \notin {"failed", "aborted"}
        /\ \A u \in DOMAIN unit : unit[u] # "cancelled"
        /\ coord = "returned"
              => \A u \in DOMAIN unit : unit[u] \in {"succeeded", "failed"}

-----------------------------------------------------------------------------
(* Properties of a whole run, continued *)

\* C22: after a bulk export in which all k units succeed, exactly k distinct
\* files exist in the DSL folder, one for each resource, named by the
\* resource's resolved name with every "/" replaced by "-"; no unit
\* overwrites the file of another unit.
C22_OneFilePerResource ==
    (variant = "export" /\ mainPc \in {"bulk", "closed"} /\ coord = "returned"
        /\ \A u \in DOMAIN unit : unit[u] = "succeeded")
        => /\ saved = DOMAIN unit
           /\ Cardinality(DslFolder) = Len(unit)
           /\ \A u, w \in DOMAIN unit : u # w => FileName(u) # FileName(w)
           /\ \A u \in DOMAIN unit :
                  /\ Len(FileName(u)) = Len(unique_apps[u].name)
                  /\ \A i \in 1..Len(FileName(u)) :
                         /\ FileName(u)[i] # "/"
                         /\ unique_apps[u].name[i] # "/"
                               => FileName(u)[i] = unique_apps[u].name[i]

\* the ids of xs, each with the number of elements that carry it
IdCount(xs, id) == Cardinality({i \in 1..Len(xs) : xs[i].id = id})

\* C25: the coordinator schedules exactly one unit per resource of the
\* collection it is given, all of them up front, and each unit targets its
\* resource's own id: the multiset of ids targeted by the units of a bulk
\* delete or export equals the multiset of ids fetched, whatever renaming
\* took place.
C25_OneUnitPerFetchedId ==
    (ListingRun /\ coord # "idle")
        => /\ DOMAIN unit = 1..Len(apps)
           /\ DOMAIN call = DOMAIN unit
           /\ Len(apps) = Len(app_list)
           /\ \A id \in Ids :
                  Cardinality({u \in DOMAIN unit : TargetId(u) = id})
                      = IdCount(apps, id)
           /\ coord # "start" => \A u \in DOMAIN unit : call[u].pc # "new"

\* the units of a run in which a resource was renamed are all scheduled
C25_Witness ==
    /\ ListingRun
    /\ coord = "gathering"
    /\ Len(apps) >= 2
    /\ same_app_names # <<>>
    /\ \A u \in DOMAIN unit : unit[u] = "inflight"

\* the endpoints unit u has called so far: its one execute_api call stands
\* for the first endpoint, requested once the call sent a request
Called(u) ==
    IF call[u].sent >= 1 THEN SubSeq(UnitCalls(variant), 1, 1) ELSE <<>>

\* C24: every unit of a bulk import chains a second, dependent publish call
\* after its import call; a failure of the publish call is reported for
\* that resource only.
C24_PublishAfterImport ==
    variant = "import" =>
        \A u \in DOMAIN unit :
            unit[u] = "succeeded"
                => /\ Len(UnitCalls(variant)) = 2
                   /\ UnitCalls(variant)[1] = "/apps/imports"
                   /\ \E i \in 1..Len(Called(u)) : Called(u)[i] # "/apps/imports"

-----------------------------------------------------------------------------
(* Properties of a single call, continued *)

\* C28: execute_api called with retries = 0 sends no request and performs no
\* sleep, and fails with the exhausted-retries error whatever the method is:
\* an unsupported method is not reported as invalid in that case.
C28_ZeroRetriesExhaustedAtOnce ==
    \A c \in DOMAIN call :
        call[c].retries = 0
            => /\ call[c].sent = 0
               /\ call[c].sleeps = 0
               /\ call[c].pc \in {"new", "done"}
               /\ call[c].pc = "done"
                     => /\ call[c].outcome = "exhausted"
                        /\ ~call[c].holds
                        /\ permits = MAX_CONCURRENT_TASKS

\* a call with retries = 0 and an unsupported method ended as exhausted
C28_Witness ==
    \E c \in DOMAIN call :
        /\ call[c].retries = 0
        /\ call[c].method \notin Supported(variant)
        /\ call[c].pc = "done"
        /\ call[c].outcome = "exhausted"

-----------------------------------------------------------------------------
(* Properties of the concurrency slots, continued *)

\* the calls that own a permit: inside `async with semaphore`, or handed a
\* permit by release and about to resume inside it
Holders == {c \in DOMAIN call : call[c].holds \/ call[c].pc = "granted"}

\* C26: the free permits plus the calls holding a slot are always N, a call
\* holds at most one slot, and a call gives its slot back on every way out
\* of execute_api (success, exhausted retries, invalid method, exception of
\* the HTTP client or of body parsing): once all calls have ended the free
\* permits are N again.
C26_SlotConservation ==
    /\ permits + Cardinality(Holders) = MAX_CONCURRENT_TASKS
    /\ permits >= 0
    /\ \A c \in DOMAIN call :
          /\ ~(call[c].holds /\ call[c].pc = "granted")
          /\ call[c].pc \in {"inflight"} => call[c].holds
          /\ call[c].pc \in {"new", "waiting", "done"} => ~call[c].holds
    /\ (\A c \in DOMAIN call : call[c].pc = "done")
          => permits = MAX_CONCURRENT_TASKS /\ waiters = <<>>

\* more callers than permits have all ended: by a return, by exhausted
\* retries and by an exception
C26_Witness ==
    /\ Len(call) > MAX_CONCURRENT_TASKS
    /\ \A c \in DOMAIN call : call[c].pc = "done"
    /\ {"returned", "exhausted"} \subseteq {call[c].outcome : c \in DOMAIN call}
    /\ \E c \in DOMAIN call : call[c].cause = "exception"
                                  \/ call[c].outcome \in {"invalid", "http_error",
                                                          "parse_error"}
    /\ \E c \in DOMAIN call : call[c].acquired >= 1 /\ call[c].method = "PUT"

-----------------------------------------------------------------------------
(* Progress of the bulk units *)

\* the run of the coordinator is over
RunOver == coord \in {"returned", "aborted"}

=============================================================================
